---- MODULE Spec2Model ----
(***************************************************************************)
(* Parallel Augmented Random Search (python/ray/rllib/ars/ars.py):         *)
(* the coordinator ARSAgent, its remote Worker actors, the shared noise    *)
(* table and the observation-filter synchronisation.                       *)
(*                                                                         *)
(* Numbers.  numpy float64 values are modelled as fixed-point numbers with *)
(* FScale units per 1.0 plus the IEEE special values NaN and +/-Inf, so    *)
(* that division by zero behaves as numpy's does (no exception).           *)
(***************************************************************************)
EXTENDS Integers, Sequences, FiniteSets, TLC

(* ------------------------------ bounds --------------------------------- *)
\* config["num_workers"] (default 32), scaled down
NumWorkers == 2
\* config["num_deltas"] (default 320), scaled down
NumDeltas == 3
\* count of create_shared_noise (250000000), scaled down
NoiseLen == 3
\* w_policy.size
Dim == 2
\* config["rollout_length"] (default 1000), scaled down
RolloutLength == 2
\* env.spec.timestep_limit, scaled down
TimestepLimit == 2
\* num_rollouts of the evaluation pass (100 at line 368), scaled down
EvalRollouts == 3
\* period of the evaluation branch (10 at line 366), scaled down
ReportEvery == 3
\* how many times the caller invokes _train
MaxTrainCalls == 2
\* reward shift of the configuration, in whole rewards
Shift == 1
\* config["seed"] ranges over 0..MaxSeed
MaxSeed == 1
\* rewards given to the selection on its own range over 0..MaxRewardValue
MaxRewardValue == 2
\* the partition on its own is given up to MaxPartDeltas rollouts and
\* MaxPartWorkers workers
MaxPartDeltas == 12
MaxPartWorkers == 5

(* --------------------------- float64 model ----------------------------- *)
FScale == 1000

Fin(v) == [t |-> "fin", v |-> v]
NaN == [t |-> "nan", v |-> 0]
Inf(s) == [t |-> "inf", v |-> s]
IsFinite(a) == a.t = "fin"
IsNaN(a) == a.t = "nan"

Sign(x) == IF x > 0 THEN 1 ELSE IF x < 0 THEN -1 ELSE 0
Abs(x) == IF x < 0 THEN -x ELSE x
\* integer quotient truncated toward zero
Quot(a, b) == Sign(a) * Sign(b) * (Abs(a) \div Abs(b))
Min(a, b) == IF a < b THEN a ELSE b
Max(a, b) == IF a > b THEN a ELSE b

FNeg(a) == IF a.t = "nan" THEN NaN ELSE [t |-> a.t, v |-> -a.v]

FAdd(a, b) ==
    IF a.t = "nan" \/ b.t = "nan" THEN NaN
    ELSE IF a.t = "inf" /\ b.t = "inf"
         THEN IF a.v = b.v THEN a ELSE NaN
    ELSE IF a.t = "inf" THEN a
    ELSE IF b.t = "inf" THEN b
    ELSE Fin(a.v + b.v)

FSub(a, b) == FAdd(a, FNeg(b))

FMul(a, b) ==
    IF a.t = "nan" \/ b.t = "nan" THEN NaN
    ELSE IF a.t = "inf" \/ b.t = "inf"
         THEN IF Sign(a.v) * Sign(b.v) = 0 THEN NaN
              ELSE Inf(Sign(a.v) * Sign(b.v))
    ELSE Fin(Quot(a.v * b.v, FScale))

\* numpy true division: x/0 is +/-inf, 0/0 is nan, no exception is raised
FDiv(a, b) ==
    IF a.t = "nan" \/ b.t = "nan" THEN NaN
    ELSE IF a.t = "inf"
         THEN IF b.t = "inf" THEN NaN
              ELSE Inf(a.v * (IF b.v < 0 THEN -1 ELSE 1))
    ELSE IF b.t = "inf" THEN Fin(0)
    ELSE IF b.v = 0
         THEN IF a.v = 0 THEN NaN ELSE Inf(Sign(a.v))
    ELSE Fin(Quot(a.v * FScale, b.v))

\* a >= b on floats: every comparison with NaN is False
FGe(a, b) ==
    IF a.t = "nan" \/ b.t = "nan" THEN FALSE
    ELSE IF a.t = "inf" THEN a.v = 1 \/ (b.t = "inf" /\ b.v = -1)
    ELSE IF b.t = "inf" THEN b.v = -1
    ELSE a.v >= b.v

\* np.max of two values: NaN propagates
FMax(a, b) ==
    IF a.t = "nan" \/ b.t = "nan" THEN NaN
    ELSE IF FGe(a, b) THEN a ELSE b

\* an integer count as a float
FInt(n) == Fin(n * FScale)

RECURSIVE ISqrtIn(_, _, _)
ISqrtIn(x, lo, hi) ==
    IF lo >= hi THEN lo
    ELSE LET mid == (lo + hi + 1) \div 2
         IN  IF mid * mid <= x THEN ISqrtIn(x, mid, hi)
             ELSE ISqrtIn(x, lo, mid - 1)
\* floor of the square root
ISqrt(x) == ISqrtIn(x, 0, Min(x, 46340))

RECURSIVE FSum(_)
FSum(s) == IF s = <<>> THEN Fin(0) ELSE FAdd(Head(s), FSum(Tail(s)))

\* np.std of a flat sequence of floats (population standard deviation)
NpStd(xs) ==
    IF xs = <<>> THEN NaN
    ELSE IF \E i \in 1..Len(xs) : ~IsFinite(xs[i]) THEN NaN
    ELSE LET n == Len(xs)
             mean == Quot(FSum(xs).v, n)
             sq == FSum([i \in 1..n |-> Fin((xs[i].v - mean) * (xs[i].v - mean))]).v
         IN  Fin(ISqrt(Quot(sq, n)))

\* vectors of floats
VAdd(a, b) == [j \in 1..Len(a) |-> FAdd(a[j], b[j])]
VSub(a, b) == [j \in 1..Len(a) |-> FSub(a[j], b[j])]
VScale(c, a) == [j \in 1..Len(a) |-> FMul(c, a[j])]
VZero(n) == [j \in 1..n |-> Fin(0)]
VFinite(a) == \A j \in 1..Len(a) : IsFinite(a[j])

(* ------------------------- SharedNoiseTable ---------------------------- *)
\* create_shared_noise: a seeded, hence fixed, sequence of normal draws
NoiseAt(k) == Fin((IF k % 2 = 1 THEN k * k ELSE -k) * FScale)
create_shared_noise == [k \in 1..NoiseLen |-> NoiseAt(k)]

\* Python's s[a:b] on a sequence (0-based, clipped, negative indices wrap)
PyIndex(n, a) == IF a < 0 THEN Max(n + a, 0) ELSE Min(a, n)
PySlice(s, a, b) ==
    LET lo == PyIndex(Len(s), a)
        hi == PyIndex(Len(s), b)
    IN  IF hi <= lo THEN <<>> ELSE [k \in 1..(hi - lo) |-> s[lo + k]]

\* SharedNoiseTable.get
NoiseGet(tbl, i, dim) == PySlice(tbl, i, i + dim)

\* np.random.RandomState(seed): a seeded generator is a deterministic
\* sequence of states; its Mersenne twister is modelled by a full-period
\* congruential generator
RgSeed(seed) == seed % 64
RgStep(s) == (5 * s + 3) % 64
RgStates == 0..63
\* rg.randint(0, high): a value in [0, high), high exclusive
RandInt(s, high) == (RgStep(s) \div 8) % high

\* faulty variant: high taken as inclusive
SampleIndexHigh_Inclusive(tbl, dim) == Len(tbl) - dim + 2
\* SharedNoiseTable.sample_index: the bound given to randint (line 72)
SampleIndexHigh(tbl, dim) == Len(tbl) - dim + 1
\* SharedNoiseTable.sample_index from generator state s
SampleIndex(s, tbl, dim) == RandInt(s, SampleIndexHigh(tbl, dim))

(* ---------------------- ObservationFilter (spec 4.2) ------------------- *)
\* a running statistic as mergeable sums: count, sum and sum of squares
\* (equivalent to the (n, mean, M2) triple of a Welford accumulator)
EmptyStat == [n |-> 0, sum |-> 0, sumsq |-> 0]
StatPush(rs, x, times) ==
    [n |-> rs.n + times, sum |-> rs.sum + times * x, sumsq |-> rs.sumsq + times * x * x]
\* parallel combination of two accumulators
StatMerge(a, b) == [n |-> a.n + b.n, sum |-> a.sum + b.sum, sumsq |-> a.sumsq + b.sumsq]

NewFilter == [rs |-> EmptyStat, buffer |-> EmptyStat]
\* normalize(x) in update mode folds x into the delta buffer
FilterFold(f, x, times, update) ==
    IF update THEN [f EXCEPT !.buffer = StatPush(f.buffer, x, times)] ELSE f
\* merge(other_delta): only the other filter's delta buffer is applied
FilterUpdate(f, other) == [f EXCEPT !.rs = StatMerge(f.rs, other.buffer)]
FilterClearBuffer(f) == [f EXCEPT !.buffer = EmptyStat]
\* sync(reference): the filter is replaced wholesale by the reference copy
FilterSync(f, other) == other
\* the workers are instructed to clear their own buffers (4.4 step 9)
FilterStatsIncrement(f) == [f EXCEPT !.buffer = EmptyStat]

(* ------------------------------- Worker -------------------------------- *)
Workers == 1..NumWorkers
\* delta_std (0.02) and step_size (0.01) in fixed-point units
DeltaStd == 20
StepSize == 10

\* env_seed of worker w (line 246: seed + 7 * i, i counted from 0)
WorkerSeed(seed, w) == seed + 7 * (w - 1)

\* the observation worker w's environment shows (environments are seeded
\* differently per worker, line 246)
ObsOf(w) == w

\* the black boxes: LinearPolicy.compute and env.step.  The action is linear
\* in the weights, the reward linear in the action, and the episode is done
\* after e.horizon steps.
PolicyCompute(weights) == FSum(weights)
EnvReward(e, action) == FMul(FInt(e.coef), action)
EnvDone(e, steps) == steps >= e.horizon

\* faulty variant: the loop goes on after done
RECURSIVE RolloutLoop_IgnoresDone(_, _, _, _, _, _, _)
RolloutLoop_IgnoresDone(i, rollout_length, total_reward, steps, weights, shift, e) ==
    IF i >= rollout_length THEN [reward |-> total_reward, steps |-> steps]
    ELSE RolloutLoop_IgnoresDone(i + 1, rollout_length,
                                 FAdd(total_reward,
                                      FSub(EnvReward(e, PolicyCompute(weights)), shift)),
                                 steps + 1, weights, shift, e)
\* Worker.rollout: the for loop of lines 136-142 from iteration i on
RECURSIVE RolloutLoop(_, _, _, _, _, _, _)
RolloutLoop(i, rollout_length, total_reward, steps, weights, shift, e) ==
    IF i >= rollout_length THEN [reward |-> total_reward, steps |-> steps]
    ELSE LET action == PolicyCompute(weights)
             reward == EnvReward(e, action)
             total2 == FAdd(total_reward, FSub(reward, shift))
         IN  IF EnvDone(e, steps + 1)
             THEN [reward |-> total2, steps |-> steps + 1]
             ELSE RolloutLoop(i + 1, rollout_length, total2, steps + 1, weights, shift, e)

Rollout(weights, shift, rollout_length, e) ==
    RolloutLoop(0, rollout_length, Fin(0), 0, weights, shift, e)

\* faulty variant: the slice is taken one offset after the recorded one
Perturbation_NextOffset(tbl, idx, dim) ==
    VScale(Fin(DeltaStd), NoiseGet(tbl, (idx + 1) % (Len(tbl) - dim + 1), dim))
\* the perturbation of a trial: (self.delta_std * delta).reshape(w_policy.shape)
Perturbation(tbl, idx, dim) == VScale(Fin(DeltaStd), NoiseGet(tbl, idx, dim))

\* faulty variant: evaluation rollouts shift the rewards as training ones do
EvalShift_Configured == FInt(Shift)
\* line 164: an evaluation rollout is called with shift = 0.
EvalShift == Fin(0)

\* One iteration of the loop of do_rollouts (lines 154-186) on the worker's
\* local state ws = [weights, update_filter, filter, rg].  fail is "none", or
\* the rollout in which the environment or the policy raises: "pos" or "neg".
\* A rollout that raises has computed one action (one observation folded).
\* When there is nothing to draw from, randint raises in sample_index.
DoTrial(ws, w_policy, shift, evaluate, tbl, e, obs, fail) ==
    IF evaluate
    THEN LET r == Rollout(w_policy, EvalShift, TimestepLimit, e)
             folded == IF fail = "none" THEN r.steps ELSE Min(1, TimestepLimit)
         IN  [ws |-> [ws EXCEPT !.weights = w_policy, !.update_filter = FALSE,
                                !.filter = FilterFold(@, obs, folded, FALSE)],
              idx |-> -1, rewards |-> <<r.reward>>, steps |-> 0,
              rolled |-> <<w_policy>>, failed |-> fail # "none"]
    ELSE IF SampleIndexHigh(tbl, Len(w_policy)) <= 0
    THEN [ws |-> ws, idx |-> 0, rewards |-> <<>>, steps |-> 0,
          rolled |-> <<>>, failed |-> TRUE]
    ELSE LET idx == SampleIndex(ws.rg, tbl, Len(w_policy))
             delta == Perturbation(tbl, idx, Len(w_policy))
             wpos == VAdd(w_policy, delta)
             wneg == VSub(w_policy, delta)
             pos == Rollout(wpos, shift, RolloutLength, e)
             neg == Rollout(wneg, shift, RolloutLength, e)
             one == Min(1, RolloutLength)
             folded == IF fail = "pos" THEN one
                       ELSE IF fail = "neg" THEN pos.steps + one
                       ELSE pos.steps + neg.steps
         IN  [ws |-> [weights |-> IF fail = "pos" THEN wpos ELSE wneg,
                      update_filter |-> TRUE,
                      filter |-> FilterFold(ws.filter, obs, folded, TRUE),
                      rg |-> RgStep(ws.rg)],
              idx |-> idx, rewards |-> <<pos.reward, neg.reward>>,
              steps |-> pos.steps + neg.steps,
              rolled |-> <<wpos, wneg>>, failed |-> fail # "none"]

\* Worker.do_rollouts from trial i on; failAt = [k, phase] makes trial k
\* raise (k = 0: none).
\* acc = [ws, deltas_idx, rollout_rewards, steps, rolled, failed].
RECURSIVE DoRolloutsLoop(_, _, _, _, _, _, _, _, _)
DoRolloutsLoop(i, num_rollouts, acc, w_policy, shift, evaluate, tbl, eo, failAt) ==
    IF i > num_rollouts \/ acc.failed THEN acc
    ELSE LET t == DoTrial(acc.ws, w_policy, shift, evaluate, tbl, eo.e, eo.obs,
                          IF failAt.k = i THEN failAt.phase ELSE "none")
             acc2 == IF t.failed
                     THEN [acc EXCEPT !.ws = t.ws, !.failed = TRUE]
                     ELSE [ws |-> t.ws,
                           deltas_idx |-> Append(acc.deltas_idx, t.idx),
                           rollout_rewards |-> Append(acc.rollout_rewards, t.rewards),
                           steps |-> acc.steps + t.steps,
                           rolled |-> Append(acc.rolled, t.rolled),
                           failed |-> FALSE]
         IN  DoRolloutsLoop(i + 1, num_rollouts, acc2, w_policy, shift, evaluate,
                            tbl, eo, failAt)

DoRollouts(ws, w_policy, num_rollouts, shift, evaluate, tbl, eo, failAt) ==
    DoRolloutsLoop(1, num_rollouts,
                   [ws |-> ws, deltas_idx |-> <<>>, rollout_rewards |-> <<>>,
                    steps |-> 0, rolled |-> <<>>, failed |-> FALSE],
                   w_policy, shift, evaluate, tbl, eo, failAt)

(* ------------------- ARSAgent.aggregate_rollouts ----------------------- *)
\* the batch sizes of lines 278-289: every worker gets int(num_deltas /
\* num_workers) rollouts, the first num_deltas % num_workers one more
\* faulty variant: the quotient is rounded up
RolloutsEach_Ceil(num_deltas, num_workers) == (num_deltas + num_workers - 1) \div num_workers
\* line 278: num_rollouts = int(num_deltas / self.num_workers)
RolloutsEach(num_deltas, num_workers) == num_deltas \div num_workers
\* line 289: self.workers[:(num_deltas % self.num_workers)]
ExtraCount(num_deltas, num_workers) == num_deltas % num_workers
BatchOne(num_deltas) == RolloutsEach(num_deltas, NumWorkers)
ExtraWorkers(num_deltas) == 1..ExtraCount(num_deltas, NumWorkers)

RECURSIVE Concat(_)
Concat(ss) == IF ss = <<>> THEN <<>> ELSE Head(ss) \o Concat(Tail(ss))

\* results_one then results_two, in worker order (lines 297-307)
Collected(one, two, num_deltas) ==
    [k \in 1..(NumWorkers + Cardinality(ExtraWorkers(num_deltas))) |->
        IF k <= NumWorkers THEN one[k] ELSE two[k - NumWorkers]]
CollectedSteps(res) == FSum([k \in 1..Len(res) |-> Fin(res[k].steps)]).v
\* faulty variant: the offsets are collected in the opposite order
CollectedIdx_Reversed(res) ==
    LET all == Concat([k \in 1..Len(res) |-> res[k].deltas_idx])
    IN  [i \in 1..Len(all) |-> all[Len(all) + 1 - i]]
CollectedIdx(res) == Concat([k \in 1..Len(res) |-> res[k].deltas_idx])
CollectedRewards(res) == Concat([k \in 1..Len(res) |-> res[k].rollout_rewards])

\* np.max(rollout_rewards, axis = 1)
RECURSIVE FMaxSeq(_)
FMaxSeq(s) == IF Len(s) = 1 THEN s[1] ELSE FMax(Head(s), FMaxSeq(Tail(s)))
MaxRewards(rewards) == [i \in 1..Len(rewards) |-> FMaxSeq(rewards[i])]

\* line 322-323: deltas_used is clamped to num_deltas
ClampDeltasUsed(du) == IF du > NumDeltas THEN NumDeltas ELSE du

\* np.percentile(a, 100 * (1 - du / nd)) with linear interpolation between
\* the two nearest ranks; the rank (1 - du/nd) * (n - 1) is kept as the
\* exact fraction num / nd
Percentile(a, du, nd) ==
    IF a = <<>> \/ \E i \in 1..Len(a) : IsNaN(a[i]) THEN NaN
    ELSE LET n == Len(a)
             s == SortSeq(a, LAMBDA x, y : ~FGe(x, y))
             num == (nd - du) * (n - 1)
             lo == num \div nd
             rem == num % nd
         IN  IF rem = 0 THEN s[lo + 1]
             ELSE FAdd(s[lo + 1],
                       FMul(FSub(s[lo + 2], s[lo + 1]), Fin(Quot(rem * FScale, nd))))

\* faulty variant: the comparison with the percentile is strict
RECURSIVE SelectFrom_Strict(_, _, _)
SelectFrom_Strict(i, max_rewards, thr) ==
    IF i > Len(max_rewards) THEN <<>>
    ELSE (IF FGe(max_rewards[i], thr) /\ max_rewards[i] # thr THEN <<i>> ELSE <<>>)
         \o SelectFrom_Strict(i + 1, max_rewards, thr)
\* line 325: the positions whose max reward reaches the percentile
RECURSIVE SelectFrom(_, _, _)
SelectFrom(i, max_rewards, thr) ==
    IF i > Len(max_rewards) THEN <<>>
    ELSE (IF FGe(max_rewards[i], thr) THEN <<i>> ELSE <<>>)
         \o SelectFrom(i + 1, max_rewards, thr)
\* faulty variant: the percentile is the lowest reward whatever deltas_used
TopIdx_KeepAll(max_rewards, du, nd) ==
    SelectFrom(1, max_rewards, Percentile(max_rewards, nd, nd))
TopIdx(max_rewards, du, nd) == SelectFrom(1, max_rewards, Percentile(max_rewards, du, nd))

Pick(s, idx) == [k \in 1..Len(idx) |-> s[idx[k]]]

\* line 330: rollout_rewards /= np.std(rollout_rewards)
Normalize(rewards) ==
    LET std == NpStd(Concat(rewards))
    IN  [i \in 1..Len(rewards) |-> [c \in 1..Len(rewards[i]) |-> FDiv(rewards[i][c], std)]]

\* utils.batched_weighted_sum: sum over the trials of weight * vector
RECURSIVE WeightedSum(_, _, _)
WeightedSum(weights, vecs, n) ==
    IF weights = <<>> THEN VZero(n)
    ELSE VAdd(VScale(Head(weights), Head(vecs)), WeightedSum(Tail(weights), Tail(vecs), n))

\* lines 312-341 on the collected results.  raised: rollout_rewards.max()
\* of nothing (line 312) or the division by a retained count of zero
\* (line 338) raises.
AggregateTail(deltas_idx0, rewards0, w_policy, du0, tbl) ==
    LET max_rewards == MaxRewards(rewards0)
        du == ClampDeltasUsed(du0)
        idx == TopIdx(max_rewards, du, NumDeltas)
        deltas_idx == Pick(deltas_idx0, idx)
        kept == Pick(rewards0, idx)
        rollout_rewards == Normalize(kept)
        diffs == [i \in 1..Len(idx) |-> FSub(rollout_rewards[i][1], rollout_rewards[i][2])]
        vecs == [i \in 1..Len(idx) |-> NoiseGet(tbl, deltas_idx[i], Len(w_policy))]
        total == WeightedSum(diffs, vecs, Len(w_policy))
    IN  [raised |-> Len(rewards0) = 0 \/ Len(idx) = 0,
         idx |-> idx, deltas_idx |-> deltas_idx, kept |-> kept,
         rollout_rewards |-> rollout_rewards,
         std |-> NpStd(Concat(kept)),
         g_hat |-> [j \in 1..Len(w_policy) |-> FDiv(total[j], FInt(Len(idx)))],
         deltas_used |-> du]

(* ------------------------ optimizers.SGD (spec 4.5) -------------------- *)
\* plain SGD: delta = learning_rate * gradient_estimate
ComputeStep(g_hat) == VScale(Fin(StepSize), g_hat)

\* train_step, line 351: self.w_policy -= self.optimizer._compute_step(g_hat)
TrainStepWeights(w_policy, g_hat) == VSub(w_policy, ComputeStep(g_hat))

(* ------------------------------ state ---------------------------------- *)
VARIABLES
    call,           \* the last call made on a SharedNoiseTable by itself
    noise,          \* the shared noise buffer (create_shared_noise)
    env,            \* the environment every worker simulates
    pc,             \* where the coordinator is in _train
    calls,          \* calls of _train so far
    iter,           \* the loop variable i of _train
    evaluate,       \* the evaluate argument of the running aggregate_rollouts
    epoch,          \* number of aggregate_rollouts calls so far
    w_policy,       \* ARSAgent.w_policy, the canonical weights
    timesteps,      \* ARSAgent.timesteps
    deltas_used,    \* ARSAgent.deltas_used
    cfilter,        \* ARSAgent.policy.observation_filter
    ids_one,        \* rollout_ids_one: the future of each worker
    ids_two,        \* rollout_ids_two: the future of each of the first workers
    pull_j,         \* the loop variable j of the filter pull
    reply,          \* the future of the get_filter / get_weights_plus_stats call
    acks,           \* the futures of sync_filter / stats_increment
    queue,          \* the actor's task queue of each worker
    wstate,         \* each worker's policy: weights, update_filter, filter
    fstate,         \* each worker's place in the filter synchronisation
    agg,            \* what the last aggregate_rollouts call computed
    w_start,        \* the canonical weights when the running step began
    w_writes,       \* number of writes of w_policy
    steps_done,     \* number of train_step calls that returned
    config,         \* ARSAgent.config: deltas_used and seed
    policy_w,       \* the weights held by ARSAgent.policy
    so_far,         \* ARSAgent.episodes_so_far and timesteps_so_far
    ckpt,           \* the checkpoint file written by _save
    restore         \* what the last _restore was given and how it ended

vars == <<call, noise, env, pc, calls, iter, evaluate, epoch, w_policy, timesteps,
          deltas_used, cfilter, ids_one, ids_two, pull_j, reply, acks, queue,
          wstate, fstate, agg, w_start, w_writes, steps_done,
          config, policy_w, so_far, ckpt, restore>>

NoResult == [st |-> "none", deltas_idx |-> <<>>, rollout_rewards |-> <<>>,
             steps |-> 0, rolled |-> <<>>]
Pending == [NoResult EXCEPT !.st = "pending"]
Failed == [NoResult EXCEPT !.st = "error"]
NoReply == [st |-> "none", filter |-> NewFilter]
NoAgg == [count |-> 0, evaluate |-> FALSE, raised |-> FALSE, w |-> <<>>,
          collected_idx |-> <<>>, collected_rolled |-> <<>>,
          collected_rewards |-> <<>>, taken |-> 0,
          idx |-> <<>>, deltas_idx |-> <<>>, kept |-> <<>>, std |-> NaN, g_hat |-> <<>>]

Task(kind, slot, tag, w, n, shift, ev, other) ==
    [kind |-> kind, slot |-> slot, tag |-> tag, w |-> w, n |-> n,
     shift |-> shift, evaluate |-> ev, other |-> other]
FilterTask(kind, other) == Task(kind, "none", 0, <<>>, 0, Fin(0), FALSE, other)

NoCall == [op |-> "none", i |-> 0, dim |-> 0, slice |-> <<>>, index |-> 0,
           raised |-> FALSE]

\* the actors created at lines 241-250, worker w seeded with seed + 7 * (w - 1)
NewWorkers(seed) ==
    [w \in Workers |->
        [weights |-> VZero(Dim), update_filter |-> TRUE,
         filter |-> NewFilter, rg |-> RgSeed(WorkerSeed(seed, w) + 7)]]

\* no checkpoint file yet; no _restore yet
NoCheckpoint == [st |-> "none", weights |-> <<>>, episodes |-> 0, timesteps |-> 0,
                 w_policy |-> <<>>]
NoRestore == [st |-> "none", given |-> NoCheckpoint, policy_before |-> <<>>,
              so_far_before |-> [episodes |-> 0, timesteps |-> 0]]

\* the agent and its workers after ARSAgent._init
InitAgent ==
    /\ env \in [coef : {-1, 0, 1}, horizon : {1, TimestepLimit}]
    /\ pc = "idle"
    /\ calls = 0
    /\ iter = 0
    /\ evaluate = FALSE
    /\ epoch = 0
    /\ w_policy = VZero(Dim)
    /\ timesteps = 0
    /\ deltas_used \in {1, NumDeltas, NumDeltas + 1}
    /\ cfilter = NewFilter
    /\ ids_one = [w \in Workers |-> NoResult]
    /\ ids_two = [w \in Workers |-> NoResult]
    /\ pull_j = 0
    /\ reply = NoReply
    /\ acks = [w \in Workers |-> FALSE]
    /\ queue = [w \in Workers |-> <<>>]
    /\ \E seed \in 0..MaxSeed :
          /\ wstate = NewWorkers(seed)
          /\ config = [deltas_used |-> deltas_used, seed |-> seed]
    /\ policy_w = VZero(Dim)
    /\ so_far = [episodes |-> 0, timesteps |-> 0]
    /\ ckpt = NoCheckpoint
    /\ restore = NoRestore
    /\ fstate = [w \in Workers |-> "idle"]
    /\ agg = NoAgg
    /\ w_start = VZero(Dim)
    /\ w_writes = 0
    /\ steps_done = 0

Init ==
    /\ noise = create_shared_noise
    /\ call = NoCall
    /\ InitAgent

(* --------------------------- the coordinator --------------------------- *)
\* lines 281-289: one do_rollouts call per worker, and a second call of one
\* rollout for each of the first num_deltas % num_workers workers
Dispatched(q, w, tag, policy, num_deltas, ev) ==
    LET first == Append(q, Task("do_rollouts", "one", tag, policy,
                                BatchOne(num_deltas), FInt(Shift), ev, NewFilter))
    IN  IF w \in ExtraWorkers(num_deltas)
        THEN Append(first, Task("do_rollouts", "two", tag, policy, 1,
                                FInt(Shift), ev, NewFilter))
        ELSE first

\* the caller invokes _train (again after it returned; an exception ends the run)
Train ==
    /\ pc = "idle"
    /\ calls < MaxTrainCalls
    /\ calls' = calls + 1
    /\ iter' = 0
    /\ pc' = "train_step"
    /\ UNCHANGED <<config, policy_w, so_far, ckpt, restore, call, noise, env, evaluate, epoch, w_policy, timesteps, deltas_used,
                   cfilter, ids_one, ids_two, pull_j, reply, acks, queue, wstate,
                   fstate, agg, w_start, w_writes, steps_done>>

\* aggregate_rollouts up to its first ray.get, for num_deltas rollouts
DispatchRollouts(num_deltas, ev) ==
    /\ epoch' = epoch + 1
    /\ evaluate' = ev
    /\ queue' = [w \in Workers |->
                    Dispatched(queue[w], w, epoch + 1, w_policy, num_deltas, ev)]
    /\ ids_one' = [w \in Workers |-> Pending]
    /\ ids_two' = [w \in Workers |->
                      IF w \in ExtraWorkers(num_deltas) THEN Pending ELSE NoResult]
    /\ pc' = "get_one"

\* train_step calls aggregate_rollouts(): lines 349, 269-289
TrainStepDispatch ==
    /\ pc = "train_step"
    /\ DispatchRollouts(NumDeltas, FALSE)
    /\ w_start' = w_policy
    /\ UNCHANGED <<config, policy_w, so_far, ckpt, restore, call, noise, env, calls, iter, w_policy, timesteps, deltas_used, cfilter,
                   pull_j, reply, acks, wstate, fstate, agg, w_writes, steps_done>>

\* faulty variant: returns as soon as one future of the list is complete
GatherReady_AnyOne(ids) == \E w \in Workers : ids[w].st # "pending"
\* ray.get(ids) returns once every future of the list is complete
GatherReady(ids) == \A w \in Workers : ids[w].st # "pending"
\* ray.get raises when a task of the list has failed
GatherRaises(ids) == \E w \in Workers : ids[w].st = "error"

\* line 292: results_one = ray.get(rollout_ids_one)
GetOne ==
    /\ pc = "get_one"
    /\ GatherReady(ids_one)
    /\ pc' = IF GatherRaises(ids_one) THEN "raised" ELSE "get_two"
    /\ UNCHANGED <<config, policy_w, so_far, ckpt, restore, call, noise, env, calls, iter, evaluate, epoch, w_policy, timesteps,
                   deltas_used, cfilter, ids_one, ids_two, pull_j, reply, acks, queue,
                   wstate, fstate, agg, w_start, w_writes, steps_done>>

\* faulty variant: the steps of the batch replace the counter
TimestepsAfter_Overwrite(ts, ev, res) == IF ev THEN ts ELSE CollectedSteps(res)
\* self.timesteps after the loops of lines 297-307
TimestepsAfter(ts, ev, res) == IF ev THEN ts ELSE ts + CollectedSteps(res)

\* faulty variant: the failure is swallowed and the step is applied
WeightsAfterAggregate_SwallowsFailure(ev, raises, w, g_hat) ==
    IF ev THEN w ELSE TrainStepWeights(w, g_hat)
\* faulty variant: an evaluation pass goes on to an update of the weights
WeightsAfterAggregate_EvalUpdates(ev, raises, w, g_hat) ==
    IF raises THEN w
    ELSE IF ev THEN VSub(w, ComputeStep([j \in 1..Len(w) |-> FInt(1)]))
    ELSE TrainStepWeights(w, g_hat)
\* the canonical weights after aggregate_rollouts and the rest of its
\* caller: an evaluation pass returns the rewards at line 318, an exception
\* leaves train_step before line 351, otherwise line 351 applies the step
WeightsAfterAggregate(ev, raises, w, g_hat) ==
    IF ev \/ raises THEN w ELSE TrainStepWeights(w, g_hat)

\* the environment steps of the rollouts behind the collected results: those
\* of a rollout with each of the weight vectors the workers rolled out
StepsTaken(res) ==
    LET rolled == Concat([k \in 1..Len(res) |-> res[k].rolled])
    IN  FSum([i \in 1..Len(rolled) |->
                Fin(Rollout(rolled[i][1], FInt(Shift), RolloutLength, env).steps
                    + Rollout(rolled[i][2], FInt(Shift), RolloutLength, env).steps)]).v

AggRecord(ev, res, a, raises) ==
    [count |-> agg.count + 1, evaluate |-> ev, raised |-> raises, w |-> w_policy,
     collected_idx |-> CollectedIdx(res),
     collected_rolled |-> Concat([k \in 1..Len(res) |-> res[k].rolled]),
     collected_rewards |-> CollectedRewards(res),
     taken |-> agg.taken + (IF ev THEN 0 ELSE StepsTaken(res)),
     idx |-> a.idx, deltas_idx |-> a.deltas_idx, kept |-> a.kept,
     std |-> a.std, g_hat |-> a.g_hat]

\* lines 293-341 and 350-351 of a training step, then the branch of line 366
GetTwoTrain ==
    /\ pc = "get_two"
    /\ ~evaluate
    /\ GatherReady(ids_two)
    /\ LET res == Collected(ids_one, ids_two, NumDeltas)
           a == AggregateTail(CollectedIdx(res), CollectedRewards(res),
                              w_policy, deltas_used, noise)
           gr == GatherRaises(ids_two)
           raises == gr \/ a.raised
       IN  /\ timesteps' = IF gr THEN timesteps ELSE TimestepsAfter(timesteps, FALSE, res)
           /\ deltas_used' = IF gr THEN deltas_used ELSE a.deltas_used
           /\ agg' = IF gr THEN agg ELSE AggRecord(FALSE, res, a, a.raised)
           /\ w_policy' = WeightsAfterAggregate(FALSE, raises, w_policy, a.g_hat)
           /\ w_writes' = IF raises THEN w_writes ELSE w_writes + 1
           /\ steps_done' = IF raises THEN steps_done ELSE steps_done + 1
           /\ pull_j' = IF raises THEN pull_j ELSE 1
           /\ pc' = IF raises THEN "raised"
                    ELSE IF (iter + 1) % ReportEvery = 0 THEN "evaluate"
                    ELSE "pull_send"
    /\ UNCHANGED <<config, policy_w, so_far, ckpt, restore, call, noise, env, calls, iter, evaluate, epoch, cfilter, ids_one, ids_two,
                   reply, acks, queue, wstate, fstate, w_start>>

\* line 368: aggregate_rollouts(num_rollouts = 100, evaluate = True)
EvalDispatch ==
    /\ pc = "evaluate"
    /\ DispatchRollouts(EvalRollouts, TRUE)
    /\ UNCHANGED <<config, policy_w, so_far, ckpt, restore, call, noise, env, calls, iter, w_policy, timesteps, deltas_used, cfilter,
                   pull_j, reply, acks, wstate, fstate, agg, w_start, w_writes,
                   steps_done>>

\* lines 293-318 of an evaluation pass, then line 369 asks worker 0 for its
\* weights and statistics
GetTwoEval ==
    /\ pc = "get_two"
    /\ evaluate
    /\ GatherReady(ids_two)
    /\ LET res == Collected(ids_one, ids_two, EvalRollouts)
           raises == GatherRaises(ids_two) \/ Len(CollectedRewards(res)) = 0
       IN  /\ timesteps' = IF raises THEN timesteps ELSE TimestepsAfter(timesteps, TRUE, res)
           /\ w_policy' = WeightsAfterAggregate(TRUE, raises, w_policy, <<>>)
           /\ agg' = IF raises THEN agg
                     ELSE AggRecord(TRUE, res, [NoAgg EXCEPT !.kept = CollectedRewards(res)],
                                    FALSE)
           /\ pc' = IF raises THEN "raised" ELSE "get_weights"
           /\ queue' = IF raises THEN queue
                       ELSE [queue EXCEPT ![1] =
                                Append(@, FilterTask("get_weights_plus_stats", NewFilter))]
           /\ reply' = IF raises THEN reply ELSE [st |-> "pending", filter |-> NewFilter]
    /\ UNCHANGED <<config, policy_w, so_far, ckpt, restore, call, noise, env, calls, iter, evaluate, epoch, deltas_used, cfilter,
                   ids_one, ids_two, pull_j, acks, wstate, fstate, w_start, w_writes,
                   steps_done>>

\* lines 369-422: the weights arrive, the result is returned to the caller
GotWeights ==
    /\ pc = "get_weights"
    /\ reply.st = "done"
    /\ reply' = NoReply
    /\ pc' = "idle"
    /\ UNCHANGED <<config, policy_w, so_far, ckpt, restore, call, noise, env, calls, iter, evaluate, epoch, w_policy, timesteps,
                   deltas_used, cfilter, ids_one, ids_two, pull_j, acks, queue, wstate,
                   fstate, agg, w_start, w_writes, steps_done>>

\* line 427: self.workers[j].get_filter.remote()
PullSend ==
    /\ pc = "pull_send"
    /\ queue' = [queue EXCEPT ![pull_j] = Append(@, FilterTask("get_filter", NewFilter))]
    /\ reply' = [st |-> "pending", filter |-> NewFilter]
    /\ pc' = "pull_wait"
    /\ UNCHANGED <<config, policy_w, so_far, ckpt, restore, call, noise, env, calls, iter, evaluate, epoch, w_policy, timesteps,
                   deltas_used, cfilter, ids_one, ids_two, pull_j, acks, wstate, fstate,
                   agg, w_start, w_writes, steps_done>>

\* the coordinator's filter once the last worker is merged: lines 428-431
MergedFilter(f) == FilterClearBuffer(FilterStatsIncrement(f))

\* line 427: ray.get of the worker's filter and update; after the last
\* worker lines 428-434: the merged filter is pushed to every worker
PullRecv ==
    /\ pc = "pull_wait"
    /\ reply.st = "done"
    /\ reply' = NoReply
    /\ IF pull_j < NumWorkers
       THEN /\ cfilter' = FilterUpdate(cfilter, reply.filter)
            /\ pull_j' = pull_j + 1
            /\ pc' = "pull_send"
            /\ UNCHANGED <<config, policy_w, so_far, ckpt, restore, queue, acks>>
       ELSE /\ cfilter' = MergedFilter(FilterUpdate(cfilter, reply.filter))
            /\ pull_j' = 0
            /\ queue' = [w \in Workers |->
                            Append(queue[w], FilterTask("sync_filter", cfilter'))]
            /\ acks' = [w \in Workers |-> FALSE]
            /\ pc' = "wait_sync"
    /\ UNCHANGED <<config, policy_w, so_far, ckpt, restore, call, noise, env, calls, iter, evaluate, epoch, w_policy, timesteps,
                   deltas_used, ids_one, ids_two, wstate, fstate, agg, w_start,
                   w_writes, steps_done>>

\* faulty variant: one acknowledgement is enough
AllAcked_AnyOne(a) == \E w \in Workers : a[w]
\* ray.get(ids) of the acknowledgements of every worker
AllAcked(a) == \A w \in Workers : a[w]

\* lines 436-438: every worker has synced; stats_increment is sent to all
SyncAcked ==
    /\ pc = "wait_sync"
    /\ AllAcked(acks)
    /\ queue' = [w \in Workers |->
                    Append(queue[w], FilterTask("stats_increment", NewFilter))]
    /\ acks' = [w \in Workers |-> FALSE]
    /\ pc' = "wait_incr"
    /\ UNCHANGED <<config, policy_w, so_far, ckpt, restore, call, noise, env, calls, iter, evaluate, epoch, w_policy, timesteps,
                   deltas_used, cfilter, ids_one, ids_two, pull_j, reply, wstate, fstate,
                   agg, w_start, w_writes, steps_done>>

\* line 440: every worker has incremented; the loop goes to its next iteration
IncrAcked ==
    /\ pc = "wait_incr"
    /\ AllAcked(acks)
    /\ acks' = [w \in Workers |-> FALSE]
    /\ iter' = iter + 1
    /\ pc' = "train_step"
    /\ UNCHANGED <<config, policy_w, so_far, ckpt, restore, call, noise, env, calls, evaluate, epoch, w_policy, timesteps,
                   deltas_used, cfilter, ids_one, ids_two, pull_j, reply, queue, wstate,
                   fstate, agg, w_start, w_writes, steps_done>>

(* ------------------------------ the workers ---------------------------- *)
HasTask(w, kind) == queue[w] # <<>> /\ Head(queue[w]).kind = kind

\* where a batch of n trials can raise: nowhere, or in a rollout of trial k
FailPoints(n, ev) ==
    {[k |-> 0, phase |-> "none"]}
    \cup {[k |-> k, phase |-> ph] : k \in 1..n, ph \in IF ev THEN {"pos"} ELSE {"pos", "neg"}}

\* the result an actor task leaves in its future
ResultOf(r) ==
    IF r.failed THEN Failed
    ELSE [st |-> "done", deltas_idx |-> r.deltas_idx,
          rollout_rewards |-> r.rollout_rewards, steps |-> r.steps, rolled |-> r.rolled]

\* Worker.do_rollouts, run by the actor when it is the head of its queue
WorkerDoRollouts(w) ==
    /\ HasTask(w, "do_rollouts")
    /\ LET t == Head(queue[w])
       IN  \E failAt \in FailPoints(t.n, t.evaluate) :
              LET r == DoRollouts(wstate[w], t.w, t.n, t.shift, t.evaluate, noise,
                                  [e |-> env, obs |-> ObsOf(w)], failAt)
              IN  /\ wstate' = [wstate EXCEPT ![w] = r.ws]
                  /\ ids_one' = IF t.tag = epoch /\ t.slot = "one"
                                THEN [ids_one EXCEPT ![w] = ResultOf(r)] ELSE ids_one
                  /\ ids_two' = IF t.tag = epoch /\ t.slot = "two"
                                THEN [ids_two EXCEPT ![w] = ResultOf(r)] ELSE ids_two
    /\ queue' = [queue EXCEPT ![w] = Tail(@)]
    /\ UNCHANGED <<config, policy_w, so_far, ckpt, restore, call, noise, env, pc, calls, iter, evaluate, epoch, w_policy, timesteps,
                   deltas_used, cfilter, pull_j, reply, acks, fstate, agg, w_start,
                   w_writes, steps_done>>

\* Worker.get_filter
WorkerGetFilter(w) ==
    /\ HasTask(w, "get_filter")
    /\ queue' = [queue EXCEPT ![w] = Tail(@)]
    /\ reply' = [st |-> "done", filter |-> wstate[w].filter]
    /\ fstate' = [fstate EXCEPT ![w] = "pulled"]
    /\ UNCHANGED <<config, policy_w, so_far, ckpt, restore, call, noise, env, pc, calls, iter, evaluate, epoch, w_policy, timesteps,
                   deltas_used, cfilter, ids_one, ids_two, pull_j, acks, wstate, agg,
                   w_start, w_writes, steps_done>>

\* faulty variant: the reference is merged into the worker's filter, not copied
SyncFilterState_Update(ws, other) == [ws EXCEPT !.filter = FilterUpdate(@, other)]
\* faulty variant: the reference replaces the running statistics only, the
\* worker's delta buffer survives the push
SyncFilterState_KeepsBuffer(ws, other) ==
    [ws EXCEPT !.filter = [FilterSync(@, other) EXCEPT !.buffer = ws.filter.buffer]]
\* Worker.sync_filter on the worker's policy
SyncFilterState(ws, other) == [ws EXCEPT !.filter = FilterSync(@, other)]

\* Worker.sync_filter, run by the actor
WorkerSyncFilter(w) ==
    /\ HasTask(w, "sync_filter")
    /\ queue' = [queue EXCEPT ![w] = Tail(@)]
    /\ wstate' = [wstate EXCEPT ![w] = SyncFilterState(@, Head(queue[w]).other)]
    /\ acks' = [acks EXCEPT ![w] = TRUE]
    /\ fstate' = [fstate EXCEPT ![w] = "synced"]
    /\ UNCHANGED <<config, policy_w, so_far, ckpt, restore, call, noise, env, pc, calls, iter, evaluate, epoch, w_policy, timesteps,
                   deltas_used, cfilter, ids_one, ids_two, pull_j, reply, agg, w_start,
                   w_writes, steps_done>>

\* Worker.stats_increment
WorkerStatsIncrement(w) ==
    /\ HasTask(w, "stats_increment")
    /\ queue' = [queue EXCEPT ![w] = Tail(@)]
    /\ wstate' = [wstate EXCEPT ![w].filter = FilterStatsIncrement(@)]
    /\ acks' = [acks EXCEPT ![w] = TRUE]
    /\ fstate' = [fstate EXCEPT ![w] = "idle"]
    /\ UNCHANGED <<config, policy_w, so_far, ckpt, restore, call, noise, env, pc, calls, iter, evaluate, epoch, w_policy, timesteps,
                   deltas_used, cfilter, ids_one, ids_two, pull_j, reply, agg, w_start,
                   w_writes, steps_done>>

\* Worker.get_weights_plus_stats
WorkerGetWeightsPlusStats(w) ==
    /\ HasTask(w, "get_weights_plus_stats")
    /\ queue' = [queue EXCEPT ![w] = Tail(@)]
    /\ reply' = [st |-> "done", filter |-> wstate[w].filter]
    /\ UNCHANGED <<config, policy_w, so_far, ckpt, restore, call, noise, env, pc, calls, iter, evaluate, epoch, w_policy, timesteps,
                   deltas_used, cfilter, ids_one, ids_two, pull_j, acks, wstate, fstate,
                   agg, w_start, w_writes, steps_done>>

Next ==
    \/ Train
    \/ TrainStepDispatch
    \/ GetOne
    \/ GetTwoTrain
    \/ EvalDispatch
    \/ GetTwoEval
    \/ GotWeights
    \/ PullSend
    \/ PullRecv
    \/ SyncAcked
    \/ IncrAcked
    \/ \E w \in Workers : WorkerDoRollouts(w)
    \/ \E w \in Workers : WorkerGetFilter(w)
    \/ \E w \in Workers : WorkerSyncFilter(w)
    \/ \E w \in Workers : WorkerStatsIncrement(w)
    \/ \E w \in Workers : WorkerGetWeightsPlusStats(w)

Spec == Init /\ [][Next]_vars

(* ------------- the SharedNoiseTable on its own (pure calls) ------------ *)
\* a table of any length up to NoiseLen and the arguments of one call
InitNoise ==
    /\ \E len \in 1..NoiseLen : noise = [k \in 1..len |-> NoiseAt(k)]
    /\ call \in [op : {"input"}, i : -1..(NoiseLen + 1), dim : 0..(NoiseLen + 1),
                 slice : {<<>>}, index : {0}, raised : {FALSE}]
    /\ InitAgent

\* SharedNoiseTable.get(i, dim): a slice never raises
CallGet ==
    /\ call.op = "input"
    /\ call' = [call EXCEPT !.op = "get", !.slice = NoiseGet(noise, call.i, call.dim)]
    /\ UNCHANGED <<config, policy_w, so_far, ckpt, restore, noise, env, pc, calls, iter, evaluate, epoch, w_policy, timesteps,
                   deltas_used, cfilter, ids_one, ids_two, pull_j, reply, acks, queue,
                   wstate, fstate, agg, w_start, w_writes, steps_done>>

\* SharedNoiseTable.sample_index(dim): randint raises when high <= 0
CallSampleIndex ==
    /\ call.op = "input"
    /\ IF SampleIndexHigh(noise, call.dim) <= 0
       THEN call' = [call EXCEPT !.op = "sample_index", !.raised = TRUE]
       ELSE \E s \in RgStates :
               call' = [call EXCEPT !.op = "sample_index",
                                    !.index = SampleIndex(s, noise, call.dim)]
    /\ UNCHANGED <<config, policy_w, so_far, ckpt, restore, noise, env, pc, calls, iter, evaluate, epoch, w_policy, timesteps,
                   deltas_used, cfilter, ids_one, ids_two, pull_j, reply, acks, queue,
                   wstate, fstate, agg, w_start, w_writes, steps_done>>

\* SharedNoiseTable.get_delta(dim)
CallGetDelta ==
    /\ call.op = "input"
    /\ IF SampleIndexHigh(noise, call.dim) <= 0
       THEN call' = [call EXCEPT !.op = "get_delta", !.raised = TRUE]
       ELSE \E s \in RgStates :
               LET idx == SampleIndex(s, noise, call.dim)
               IN  call' = [call EXCEPT !.op = "get_delta", !.index = idx,
                                        !.slice = NoiseGet(noise, idx, call.dim)]
    /\ UNCHANGED <<config, policy_w, so_far, ckpt, restore, noise, env, pc, calls, iter, evaluate, epoch, w_policy, timesteps,
                   deltas_used, cfilter, ids_one, ids_two, pull_j, reply, acks, queue,
                   wstate, fstate, agg, w_start, w_writes, steps_done>>

NextNoise ==
    \/ CallGet
    \/ CallSampleIndex
    \/ CallGetDelta

SpecNoise == InitNoise /\ [][NextNoise]_vars

(* ------------------- checkpoints: _save and _restore ------------------- *)
\* LinearPolicy.get_weights / set_weights: the parameter vector, read and
\* replaced as a whole
PolicyGetWeights(pw) == pw
PolicySetWeights(pw, weights) == weights

\* _save between two calls of _train, lines 451-460: the weights of
\* self.policy and the two counters are pickled; w_policy is not read
Save ==
    /\ pc = "idle"
    /\ calls >= 1
    /\ ckpt.st = "none"
    /\ ckpt' = [st |-> "saved", weights |-> PolicyGetWeights(policy_w),
                episodes |-> so_far.episodes, timesteps |-> so_far.timesteps,
                w_policy |-> w_policy]
    /\ UNCHANGED <<call, noise, env, pc, calls, iter, evaluate, epoch, w_policy, timesteps,
                   deltas_used, cfilter, ids_one, ids_two, pull_j, reply, acks, queue,
                   wstate, fstate, agg, w_start, w_writes, steps_done,
                   config, policy_w, so_far, restore>>

\* the checkpoint files _restore can be given: the one saved, or one of an
\* agent whose policy has one more weight
Checkpoints ==
    {ckpt, [ckpt EXCEPT !.weights = VZero(Dim + 1), !.w_policy = VZero(Dim + 1)]}

\* _restore, lines 462-466: the pickled weights go to self.policy and the
\* counters are set; nothing is compared and w_policy is not written
Restore ==
    /\ pc = "idle"
    /\ ckpt.st = "saved"
    /\ restore.st \in {"none", "fresh"}
    /\ \E given \in Checkpoints :
          /\ policy_w' = PolicySetWeights(policy_w, given.weights)
          /\ so_far' = [episodes |-> given.episodes, timesteps |-> given.timesteps]
          /\ restore' = [st |-> "returned", given |-> given,
                         policy_before |-> policy_w, so_far_before |-> so_far]
    /\ UNCHANGED <<call, noise, env, pc, calls, iter, evaluate, epoch, w_policy, timesteps,
                   deltas_used, cfilter, ids_one, ids_two, pull_j, reply, acks, queue,
                   wstate, fstate, agg, w_start, w_writes, steps_done, config, ckpt>>

\* a new agent of the same configuration is created (_init, lines 213-262)
\* while the checkpoint file stays
FreshAgent ==
    /\ pc = "idle"
    /\ ckpt.st = "saved"
    /\ restore.st = "none"
    /\ calls' = 0
    /\ iter' = 0
    /\ evaluate' = FALSE
    /\ epoch' = 0
    /\ w_policy' = VZero(Dim)
    /\ timesteps' = 0
    /\ deltas_used' = config.deltas_used
    /\ cfilter' = NewFilter
    /\ ids_one' = [w \in Workers |-> NoResult]
    /\ ids_two' = [w \in Workers |-> NoResult]
    /\ pull_j' = 0
    /\ reply' = NoReply
    /\ acks' = [w \in Workers |-> FALSE]
    /\ queue' = [w \in Workers |-> <<>>]
    /\ wstate' = NewWorkers(config.seed)
    /\ fstate' = [w \in Workers |-> "idle"]
    /\ agg' = NoAgg
    /\ w_start' = VZero(Dim)
    /\ w_writes' = 0
    /\ steps_done' = 0
    /\ policy_w' = VZero(Dim)
    /\ so_far' = [episodes |-> 0, timesteps |-> 0]
    /\ restore' = [NoRestore EXCEPT !.st = "fresh"]
    /\ UNCHANGED <<call, noise, env, pc, config, ckpt>>

NextCheckpoint ==
    \/ Next
    \/ Save
    \/ Restore
    \/ FreshAgent

\* one environment and one seed, every configured deltas_used
InitCheckpoint ==
    /\ Init
    /\ env = [coef |-> 1, horizon |-> TimestepLimit]
    /\ config.seed = 0

SpecCheckpoint == InitCheckpoint /\ [][NextCheckpoint]_vars

(* ------------- pure calls on one agent in its initial state ------------ *)
\* everything but the record of the call
agentvars == <<noise, env, pc, calls, iter, evaluate, epoch, w_policy, timesteps,
               deltas_used, cfilter, ids_one, ids_two, pull_j, reply, acks, queue,
               wstate, fstate, agg, w_start, w_writes, steps_done,
               config, policy_w, so_far, ckpt, restore>>

\* one agent, on which the call is made
InitOneAgent ==
    /\ noise = create_shared_noise
    /\ InitAgent
    /\ env = [coef |-> 1, horizon |-> TimestepLimit]
    /\ deltas_used = NumDeltas
    /\ config.seed = 0

(* ------------ the selection of aggregate_rollouts on its own ----------- *)
\* the rewards a rollout can return, in whole rewards
RewardValues == 0..MaxRewardValue
\* the reward pairs of a trial: the better rollout is either one
RewardPairs == {<<v, 0>> : v \in RewardValues} \cup {<<0, v>> : v \in RewardValues}

\* the rewards of num_deltas trials and a configured deltas_used
InitTopK ==
    /\ InitOneAgent
    /\ \E rewards \in [1..NumDeltas -> RewardPairs],
          du \in 1..(NumDeltas + 1) :
          call = [op |-> "input", du |-> du,
                  rollout_rewards |-> [i \in 1..NumDeltas |->
                                          <<FInt(rewards[i][1]), FInt(rewards[i][2])>>],
                  idx |-> <<>>, kept |-> <<>>, deltas_used |-> du]

\* lines 320-327 on these rewards
CallTopK ==
    /\ call.op = "input"
    /\ LET a == AggregateTail([i \in 1..NumDeltas |-> 0], call.rollout_rewards,
                              w_policy, call.du, noise)
       IN  call' = [call EXCEPT !.op = "topk", !.idx = a.idx, !.kept = a.kept,
                                !.deltas_used = a.deltas_used]
    /\ UNCHANGED agentvars

NextTopK == CallTopK

SpecTopK == InitTopK /\ [][NextTopK]_vars

(* ------------ the partition of aggregate_rollouts on its own ----------- *)
\* any number of rollouts asked of any number of workers
InitPartition ==
    /\ InitOneAgent
    /\ call \in [op : {"input"}, num_deltas : 0..MaxPartDeltas,
                 num_workers : 1..MaxPartWorkers, one : {<<>>}, two : {<<>>}]

\* lines 278-289: num_rollouts of each request of the first list, and of
\* each request of the second
CallPartition ==
    /\ call.op = "input"
    /\ call' = [call EXCEPT
                  !.op = "partition",
                  !.one = [w \in 1..call.num_workers |->
                              RolloutsEach(call.num_deltas, call.num_workers)],
                  !.two = [w \in 1..ExtraCount(call.num_deltas, call.num_workers) |-> 1]]
    /\ UNCHANGED agentvars

NextPartition == CallPartition

SpecPartition == InitPartition /\ [][NextPartition]_vars

(* ------------- Worker.rollout on its own, statement by statement ------- *)
\* the arguments of one call, the weights of the policy and the environment
InitRollout ==
    /\ InitOneAgent
    /\ \E len \in 0..(RolloutLength + 1), sh \in {0, Shift}, wsum \in {-1, 1},
          e \in [coef : {-1, 0, 1}, horizon : 1..(TimestepLimit + 1)] :
          call = [op |-> "input", rollout_length |-> len, shift |-> FInt(sh),
                  weights |-> [j \in 1..Dim |-> IF j = 1 THEN FInt(wsum) ELSE Fin(0)],
                  e |-> e, i |-> 0, steps |-> 0, total_reward |-> Fin(0),
                  resets |-> 0, env_steps |-> 0, env_done |-> FALSE, late |-> 0,
                  rewards |-> <<>>]

\* lines 129-135: total_reward = 0., steps = 0, ob = self.env.reset()
RolloutReset ==
    /\ call.op = "input"
    /\ call' = [call EXCEPT !.op = "loop", !.i = 0, !.steps = 0,
                            !.total_reward = Fin(0), !.resets = @ + 1,
                            !.env_steps = 0, !.env_done = FALSE]
    /\ UNCHANGED agentvars

\* lines 136-142: one iteration of the loop; done breaks out of it
RolloutStep ==
    /\ call.op = "loop"
    /\ call.i < call.rollout_length
    /\ LET action == PolicyCompute(call.weights)
           reward == EnvReward(call.e, action)
           done == EnvDone(call.e, call.env_steps + 1)
       IN  call' = [call EXCEPT
                      !.env_steps = @ + 1,
                      !.late = @ + (IF call.env_done THEN 1 ELSE 0),
                      !.env_done = done,
                      !.rewards = Append(@, reward),
                      !.steps = @ + 1,
                      !.total_reward = FAdd(@, FSub(reward, call.shift)),
                      !.i = IF done THEN @ ELSE @ + 1,
                      !.op = IF done THEN "return" ELSE "loop"]
    /\ UNCHANGED agentvars

\* line 144, reached when range(rollout_length) is exhausted
RolloutExhausted ==
    /\ call.op = "loop"
    /\ call.i >= call.rollout_length
    /\ call' = [call EXCEPT !.op = "return"]
    /\ UNCHANGED agentvars

NextRollout ==
    \/ RolloutReset
    \/ RolloutStep
    \/ RolloutExhausted

SpecRollout == InitRollout /\ [][NextRollout]_vars

(* ----------------------------- properties ------------------------------ *)
FilterKinds == {"get_filter", "sync_filter", "stats_increment"}
QueuedKinds(w) == {queue[w][k].kind : k \in 1..Len(queue[w])}
\* the workers with a batch of the running aggregate_rollouts call not yet returned
Outstanding ==
    {w \in Workers : \/ ids_one[w].st = "pending"
                     \/ ids_two[w].st = "pending"
                     \/ \E k \in 1..Len(queue[w]) :
                           queue[w][k].kind = "do_rollouts" /\ queue[w][k].tag = epoch}
FailedBatch == \E w \in Workers : ids_one[w].st = "error" \/ ids_two[w].st = "error"
\* the reward of one unshifted rollout of the environment with weights w
RewardOf(w) == Rollout(w, Fin(0), RolloutLength, env).reward

\* C1: aggregate_rollouts aggregates (training or evaluation) only in a step
\* taken from a state where no batch of that call is outstanding on any worker.
C1_AggregateAfterAllReturned ==
    [][agg'.count # agg.count => Outstanding = {}]_vars
\* a training aggregation over all NumDeltas trials, gathered from both lists
C1_Witness ==
    /\ agg.count > 0
    /\ ~agg.evaluate
    /\ Len(agg.collected_idx) = NumDeltas
    /\ \E w \in Workers : ids_two[w].st = "done"

\* C2: when a worker's batch of a training step failed, the step never
\* completes: the coordinator is still waiting or has raised, and w_policy is
\* what it was when the step began.
C2_FailureLeavesWeights ==
    (~evaluate /\ FailedBatch) =>
        /\ pc \in {"get_one", "get_two", "raised"}
        /\ w_policy = w_start
\* a later step raised for a failure in the second list, after a step that
\* had moved the weights
C2_Witness ==
    /\ pc = "raised"
    /\ ~evaluate
    /\ steps_done >= 1
    /\ w_policy # VZero(Dim)
    /\ \A w \in Workers : ids_one[w].st = "done"
    /\ \E w \in Workers : ids_two[w].st = "error"

\* C3: the canonical weights are always finite, and an aggregation whose
\* retained rewards have standard deviation zero raises or yields a finite
\* gradient estimate.
C3_ZeroVarianceGuarded ==
    /\ VFinite(w_policy)
    /\ (agg.count > 0 /\ ~agg.evaluate /\ agg.std = Fin(0)) =>
          (agg.raised \/ VFinite(agg.g_hat))

\* C4: the buffer is the one created at start-up, and for every collected
\* trial of a training aggregation the slice the coordinator gets at the
\* returned offset has the full dimension and gives, with the canonical
\* weights, the two weight vectors the worker rolled out.
C4_Reconstruction ==
    /\ noise = create_shared_noise
    /\ (agg.count > 0 /\ ~agg.evaluate) =>
          \A i \in 1..Len(agg.collected_idx) :
             LET slice == NoiseGet(noise, agg.collected_idx[i], Len(agg.w))
                 delta == [j \in 1..Len(slice) |-> FMul(Fin(DeltaStd), slice[j])]
             IN  /\ Len(slice) = Len(agg.w)
                 /\ agg.collected_rolled[i][1] = [j \in 1..Len(agg.w) |-> FAdd(agg.w[j], delta[j])]
                 /\ agg.collected_rolled[i][2] = [j \in 1..Len(agg.w) |-> FSub(agg.w[j], delta[j])]
\* a training aggregation from moved weights whose trials used different offsets
C4_Witness ==
    /\ agg.count > 0
    /\ ~agg.evaluate
    /\ agg.w # VZero(Dim)
    /\ \E i, k \in 1..Len(agg.collected_idx) : agg.collected_idx[i] # agg.collected_idx[k]

\* C5: get(offset, dim) with offset + dim beyond the buffer raises, a call
\* that returns gives exactly dim values, and the buffer is unchanged.
C5_GetRangeError ==
    (call.op = "get" /\ call.i >= 0) =>
        /\ (call.i + call.dim > Len(noise) => call.raised)
        /\ (~call.raised => Len(call.slice) = call.dim)
        /\ \A k \in 1..Len(noise) : noise[k] = NoiseAt(k)

\* C6: for 1 <= dim <= length sample_index(dim) returns a value in
\* [0, length - dim] (without raising), and 0 when dim = length.
C6_SampleIndexInRange ==
    (call.op = "sample_index" /\ 1 <= call.dim /\ call.dim <= Len(noise)) =>
        /\ ~call.raised
        /\ 0 <= call.index
        /\ call.index + call.dim <= Len(noise)
        /\ (call.dim = Len(noise) => call.index = 0)
\* the largest offset of a table longer than dim, and the case dim = length
C6_Witness ==
    /\ call.op = "sample_index"
    /\ ~call.raised
    /\ call.dim >= 1
    /\ \/ call.dim = Len(noise) /\ Len(noise) > 1
       \/ call.dim < Len(noise) /\ call.index = Len(noise) - call.dim

\* C7: a batch of trials is dispatched only when every worker is out of the
\* filter synchronisation (no pull, push or increment queued or half done),
\* and a worker runs rollouts only outside its own synchronisation.
C7_SyncBarrier ==
    [][/\ epoch' # epoch =>
             \A w \in Workers : fstate[w] = "idle" /\ QueuedKinds(w) \cap FilterKinds = {}
       /\ \A w \in Workers :
             (HasTask(w, "do_rollouts") /\ queue'[w] = Tail(queue[w])) => fstate[w] = "idle"
      ]_vars
\* trials dispatched after a completed synchronisation that merged observations
C7_Witness ==
    /\ pc = "get_one"
    /\ iter >= 1
    /\ cfilter.rs.n > 0
    /\ \A w \in Workers : fstate[w] = "idle"

\* C8: when the loop of _train comes back from a filter synchronisation,
\* every worker's filter equals the coordinator's merged filter.
C8_FiltersEqualAfterBarrier ==
    (pc = "train_step" /\ iter >= 1) =>
        \A w \in Workers : wstate[w].filter = cfilter
\* after the second barrier, the workers having contributed different
\* observations (the merged sum is not a multiple of one worker's observation)
C8_Witness ==
    /\ pc = "train_step"
    /\ iter = 2
    /\ cfilter.rs.n > 0
    /\ \A w \in Workers : cfilter.rs.sum # cfilter.rs.n * ObsOf(w)

C10_OnlyTrainStepWrites ==
    /\ [][w_policy' # w_policy =>
             (pc = "get_two" /\ ~evaluate /\ steps_done' = steps_done + 1)]_vars
    /\ [](w_writes = steps_done)
\* _train has returned after its evaluation pass, rollouts and syncs done
C10_Witness ==
    /\ pc = "idle"
    /\ calls = 1
    /\ agg.evaluate
    /\ steps_done = ReportEvery
    /\ w_policy # VZero(Dim)

\* the max rewards of the trials given to the selection, and the positions kept
TopKMax == MaxRewards(call.rollout_rewards)
TopKKept == {call.idx[k] : k \in 1..Len(call.idx)}
TopKDistinct == \A i, j \in 1..NumDeltas : i # j => TopKMax[i] # TopKMax[j]

C15_ThresholdCut ==
    call.op = "topk" =>
        /\ \A i \in TopKKept, j \in (1..NumDeltas) \ TopKKept :
              FGe(TopKMax[i], TopKMax[j])
        /\ \A i \in 1..NumDeltas :
              TopKMax[i] = Percentile(TopKMax, call.deltas_used, NumDeltas) => i \in TopKKept
\* trials tied at the percentile are all kept while a lower one is excluded
C15_Witness ==
    /\ call.op = "topk"
    /\ TopKKept # 1..NumDeltas
    /\ \E i, j \in TopKKept :
          /\ i # j
          /\ TopKMax[i] = TopKMax[j]
          /\ TopKMax[i] = Percentile(TopKMax, call.deltas_used, NumDeltas)

\* the trials worker w is asked to run by the partition
PartTrials(w) == call.one[w] + (IF w <= Len(call.two) THEN call.two[w] ELSE 0)

\* C12: the trials asked of any two workers differ by at most one, and the
\* trials asked of all workers sum to num_deltas.
C12_EvenPartition ==
    call.op = "partition" =>
        /\ \A v, w \in 1..call.num_workers :
              PartTrials(v) - PartTrials(w) \in {-1, 0, 1}
        /\ FSum([w \in 1..call.num_workers |-> Fin(PartTrials(w))]).v = call.num_deltas
\* fewer rollouts than workers, and a number the workers do not divide
C12_Witness ==
    /\ call.op = "partition"
    /\ call.num_workers > 1
    /\ \/ 0 < call.num_deltas /\ call.num_deltas < call.num_workers
       \/ call.num_deltas > call.num_workers /\ Len(call.two) > 1
    /\ \E v, w \in 1..call.num_workers : PartTrials(v) # PartTrials(w)

\* the batch requests of the running aggregate_rollouts call sent to worker w
RequestsTo(w) ==
    (IF ids_one[w].st # "none" THEN 1 ELSE 0) + (IF ids_two[w].st # "none" THEN 1 ELSE 0)

\* C13: while an aggregate_rollouts call of a training step waits for its
\* results, every worker has been sent exactly one batch request of that call.
C13_OneRequestPerWorker ==
    (pc \in {"get_one", "get_two"} /\ ~evaluate) =>
        \A w \in Workers : RequestsTo(w) = 1

\* the last aggregate_rollouts call has aggregated the results now in the futures
AggIsCurrent == agg.count > 0 /\ agg.count = epoch /\ pc \notin {"get_one", "get_two"}
\* the futures of the call: every worker's of the first list, then those of
\* the second list
Futures ==
    [k \in 1..NumWorkers |-> ids_one[k]]
    \o SelectSeq([k \in 1..NumWorkers |-> ids_two[k]], LAMBDA f : f.st # "none")
\* the trials in the futures before future k
TrialsBefore(k) == FSum([m \in 1..(k - 1) |-> Fin(Len(Futures[m].deltas_idx))]).v
\* the rewards the trial recorded with offset idx must have: those of the
\* rollouts of w + delta and w - delta (of w itself for the sentinel)
RewardsOfTrial(idx) ==
    IF idx = -1 THEN <<Rollout(agg.w, Fin(0), TimestepLimit, env).reward>>
    ELSE LET delta == Perturbation(noise, idx, Len(agg.w))
         IN  <<Rollout(VAdd(agg.w, delta), FInt(Shift), RolloutLength, env).reward,
               Rollout(VSub(agg.w, delta), FInt(Shift), RolloutLength, env).reward>>
\* the gradient estimate of the retained trials, each reward difference
\* with the noise of its own offset
PairedEstimate ==
    LET n == Len(agg.deltas_idx)
        nr == Normalize(agg.kept)
        total == WeightedSum([k \in 1..n |-> FSub(nr[k][1], nr[k][2])],
                             [k \in 1..n |-> NoiseGet(noise, agg.deltas_idx[k], Len(agg.w))],
                             Len(agg.w))
    IN  [j \in 1..Len(agg.w) |-> FDiv(total[j], FInt(n))]

\* C16: every trial of every future is at its own place of the collection,
\* once; at every position the offset is that of the trial whose rewards are
\* there, before and after the selection; the gradient estimate weights the
\* noise of each retained offset with the reward difference of the same trial.
C16_TrialsPaired ==
    AggIsCurrent =>
        /\ Len(agg.collected_idx) = TrialsBefore(Len(Futures) + 1)
        /\ Len(agg.collected_rewards) = Len(agg.collected_idx)
        /\ \A k \in 1..Len(Futures) : \A t \in 1..Len(Futures[k].deltas_idx) :
              /\ agg.collected_idx[TrialsBefore(k) + t] = Futures[k].deltas_idx[t]
              /\ agg.collected_rewards[TrialsBefore(k) + t] = Futures[k].rollout_rewards[t]
        /\ \A i \in 1..Len(agg.collected_idx) :
              agg.collected_rewards[i] = RewardsOfTrial(agg.collected_idx[i])
        /\ ~agg.evaluate =>
              /\ Len(agg.deltas_idx) = Len(agg.idx) /\ Len(agg.kept) = Len(agg.idx)
              /\ \A k \in 1..Len(agg.idx) :
                    /\ agg.deltas_idx[k] = agg.collected_idx[agg.idx[k]]
                    /\ agg.kept[k] = agg.collected_rewards[agg.idx[k]]
              /\ ~agg.raised => agg.g_hat = PairedEstimate
\* a selection that dropped a trial, among trials of different offsets and
\* different rewards collected from both lists
C16_Witness ==
    /\ AggIsCurrent
    /\ ~agg.evaluate /\ ~agg.raised
    /\ Len(Futures) > NumWorkers
    /\ Len(agg.idx) < Len(agg.collected_idx)
    /\ \E i, j \in 1..Len(agg.collected_idx) :
          /\ agg.collected_idx[i] # agg.collected_idx[j]
          /\ agg.collected_rewards[i] # agg.collected_rewards[j]

\* an evaluation pass is running: dispatched and not yet returned or raised
EvalPass == evaluate /\ pc \in {"get_one", "get_two"}

\* C17: the results of an evaluation pass are those of rollouts of the
\* canonical weights with shift 0 over the environment's step limit, with
\* offset -1; the workers that ran them hold the canonical weights with
\* filter updating off; and no step of the pass, from its dispatch to its
\* return, changes the canonical weights, deltas_used or a worker's filter.
C17_EvaluationFrame ==
    /\ []((AggIsCurrent /\ agg.evaluate) =>
            /\ agg.w = w_policy
            /\ \A i \in 1..Len(agg.collected_idx) :
                  /\ agg.collected_idx[i] = -1
                  /\ agg.collected_rolled[i] = <<agg.w>>
                  /\ agg.collected_rewards[i]
                        = <<Rollout(agg.w, Fin(0), TimestepLimit, env).reward>>
            /\ \A w \in Workers :
                  Len(ids_one[w].deltas_idx) > 0 =>
                     (pc = "get_weights" =>
                         /\ wstate[w].weights = agg.w
                         /\ ~wstate[w].update_filter))
    /\ [][(EvalPass \/ EvalPass') =>
             /\ w_policy' = w_policy
             /\ deltas_used' = deltas_used
             /\ \A w \in Workers : wstate'[w].filter = wstate[w].filter]_vars
\* an evaluation pass has returned, the weights having been trained and the
\* workers' filters holding observations
C17_Witness ==
    /\ AggIsCurrent /\ agg.evaluate
    /\ pc = "get_weights"
    /\ Len(agg.collected_idx) = EvalRollouts
    /\ w_policy # VZero(Dim)
    /\ \A w \in Workers : wstate[w].filter.rs.n > 0

\* C18: the timestep counter equals the environment steps taken in the
\* rollouts of all training batches collected so far (evaluation passes add
\* nothing), and no step decreases it.
C18_TimestepsCounted ==
    /\ [](timesteps = agg.taken)
    /\ [][timesteps' >= timesteps]_vars
\* an evaluation pass has been collected after several counted training steps
C18_Witness ==
    /\ AggIsCurrent /\ agg.evaluate
    /\ steps_done >= 2
    /\ timesteps >= 2 * 2 * NumDeltas

\* C19: a rollout that returned has reset the environment once, has stepped
\* it at most rollout_length times and never after done, stopping at the
\* first done; it returns the number of steps taken and the sum of
\* (reward - shift) over them, which is what Rollout computes.
C19_RolloutContract ==
    call.op = "return" =>
        /\ call.resets = 1
        /\ call.steps = call.env_steps
        /\ call.steps <= call.rollout_length
        /\ call.steps = Min(call.rollout_length, call.e.horizon)
        /\ call.late = 0
        /\ call.env_done => call.steps = call.e.horizon
        /\ Len(call.rewards) = call.steps
        /\ call.total_reward
              = FSum([k \in 1..call.steps |-> FSub(call.rewards[k], call.shift)])
        /\ Rollout(call.weights, call.shift, call.rollout_length, call.e)
              = [reward |-> call.total_reward, steps |-> call.steps]
\* done came before rollout_length, after more than one step, with a shift
C19_Witness ==
    /\ call.op = "return"
    /\ call.env_done
    /\ 1 < call.steps /\ call.steps < call.rollout_length
    /\ call.shift # Fin(0)
    /\ call.total_reward # Fin(0)

C20_CheckpointRoundTrip ==
    (restore.st = "returned" /\ restore.given = ckpt /\ pc = "idle") =>
        w_policy = ckpt.w_policy

\* the part of worker w's delta buffer the canonical filter has not merged:
\* between the receipt of its get_filter reply and its sync_filter the
\* buffer is already merged
Unmerged(w) ==
    IF fstate[w] = "pulled" /\ ~(pc = "pull_wait" /\ pull_j = w)
    THEN EmptyStat ELSE wstate[w].filter.buffer

RECURSIVE UnmergedUpTo(_)
UnmergedUpTo(k) ==
    IF k = 0 THEN EmptyStat ELSE StatMerge(UnmergedUpTo(k - 1), Unmerged(k))

\* a batch of training rollouts is running or not yet counted
TrainingInFlight == pc \in {"get_one", "get_two"} /\ ~evaluate

\* C21: the observations folded by training rollouts are merged into the
\* canonical filter exactly once: outside a running training batch, the
\* canonical count plus the counts still waiting in the workers' delta
\* buffers is the number of training timesteps, through evaluation passes,
\* a return of _train without a barrier and every stage of a barrier; the
\* canonical count changes only when a pulled filter is received, and then
\* by that worker's buffered count.
C21_DeltaMergedOnce ==
    /\ []((pc # "raised" /\ ~TrainingInFlight) =>
            /\ cfilter.rs.n + UnmergedUpTo(NumWorkers).n = timesteps
            /\ cfilter.buffer = EmptyStat)
    /\ [][cfilter'.rs.n =
            IF pc = "pull_wait" /\ reply.st = "done" /\ pc' # "pull_wait"
            THEN cfilter.rs.n + wstate[pull_j].filter.buffer.n
            ELSE cfilter.rs.n]_vars

\* the second call of _train has passed its first barrier: the delta left in
\* the buffers when the first call returned after its evaluation is merged
\* together with the delta of the following training step
C21_Witness ==
    /\ calls = 2
    /\ steps_done = ReportEvery + 1
    /\ pc = "train_step"
    /\ iter = 1
    /\ timesteps > 0
    /\ cfilter.rs.n = timesteps
    /\ \A w \in Workers : wstate[w].filter.buffer = EmptyStat

\* C22: a training aggregation that collected at least one trial retains at
\* least one, whatever deltas_used in 1..num_deltas and whatever the
\* rewards, and so does not divide the estimate by a retained count of zero.
C22_RetainedNonEmpty ==
    (agg.count > 0 /\ ~agg.evaluate /\ Len(agg.collected_idx) > 0) =>
        /\ Len(agg.idx) > 0
        /\ ~agg.raised

====
